---- MODULE Spec2Model ----
(***************************************************************************)
(* State-machine model of ecs::Scene<Human, Goblin> and detail::Arc        *)
(* (entity_component_system.h), with the scene of the demonstration        *)
(* program: Human = EntityArchetype<int, bool, float>,                     *)
(* Goblin = EntityArchetype<int, float>.                                   *)
(*                                                                         *)
(* A 64-bit id is kept as the pair of its two 32-bit halves:               *)
(*   id = (gen << 32) | low,   low = slot index + 1.                       *)
(* id & UINT32_MAX is id.low, id + (1ull << 32) is gen + 1.                *)
(***************************************************************************)
EXTENDS Integers, Sequences, FiniteSets, TLC

\* ---------------------------------------------------------------- bounds
\* largest id_index_pairs.size() the model lets create_entity reach
MaxSlots == 3
\* the same, in the specification that also calls destroy_entities
MaxBulkSlots == 2
\* largest generation an id may carry
MaxGen == 1
\* largest recycled_ids.size()
MaxStack == 3
\* int components take the values 0..MaxInt
MaxInt == 1
\* calls the model follows once undefined behaviour has run
MaxUndefinedCalls == 3
\* in the specification that grows a store: largest id_index_pairs.size() a
\* Goblin / a Human may be created at, and the ids destroy_entity may recycle
MaxGrowSlots == 5
MaxGrowHumanSlots == 2
MaxGrowRecycled == 2

\* ------------------------------------------------------ program constants
\* ecs::Scene<Human, Goblin>
NumArchetypes == 2
\* Arc(std::size_t capacity = 4)
DefaultCapacity == 4
\* for (int i = 0; i < 100; ++i) in the first demonstration program
ScenarioCount == 100

VARIABLES
    id_index_pairs,   \* Scene::id_index_pairs: sequence of [first: id, second: row]
    oob_pair,         \* the memory id_index_pairs[SIZE_MAX] lands on (see pair_at)
    recycled_ids,     \* Scene::recycled_ids, top of the stack last
    archetypes_tuple, \* Scene::archetypes_tuple: archetype index -> Arc
    status,           \* "ok" | "undefined" (undefined behaviour has run) | "crashed"
    undefined_calls,  \* calls made since undefined behaviour first ran
    issued,           \* caller: every handle create_entity has returned
    destroyed,        \* caller: handles destroy_entity has destroyed
    world,            \* caller: the live entities in creation order, with the values written
    last              \* the call that produced this state

vars == <<id_index_pairs, oob_pair, recycled_ids, archetypes_tuple, status,
          undefined_calls, issued, destroyed, world, last>>

Archetypes == 0..(NumArchetypes - 1)

\* Human = EntityArchetype<int, bool, float>; Goblin = EntityArchetype<int, float>;
\* EntityArchetype<Cs...> = Arc<EntityHandle, Cs...>
Components(a) ==
    IF a = 0 THEN {"EntityHandle", "int", "bool", "float"}
             ELSE {"EntityHandle", "int", "float"}

\* ------------------------------------------------------------------- ids
MkId(g, l) == [gen |-> g, low |-> l]
ZeroId == MkId(0, 0)
\* id + (1ull << 32)
BumpGen(id) == [id EXCEPT !.gen = @ + 1]
\* (id & UINT32_MAX) - 1 as std::size_t; -1 stands for SIZE_MAX (low = 0)
slot_hash(id) == id.low - 1

\* struct EntityHandle { archetype_index; id; }
Handle(a, id) == [archetype_index |-> a, id |-> id]
NoHandle == Handle(0, ZeroId)

\* value-initialised components: new (p) Components()
DefaultValue(c) ==
    CASE c = "EntityHandle" -> NoHandle
      [] c = "int" -> 0
      [] c = "bool" -> FALSE
      [] c = "float" -> 0

DefaultRow(a) == [c \in Components(a) |-> DefaultValue(c)]

\* ------------------------------------------------------------ faults
\* "none" < "ub" (undefined behaviour: the run goes on or dies) < "fatal"
\* (std::out_of_range that nobody catches: the run dies)
Worse(f, g) ==
    IF f = "fatal" \/ g = "fatal" THEN "fatal"
    ELSE IF f = "ub" \/ g = "ub" THEN "ub" ELSE "none"

\* ------------------------------------------------------------------ Arc
\* Arc(): count 0, capacity 4, one malloc'ed buffer of 4 elements per column.
\* alloc is the number of elements the column buffers really hold, freed the
\* columns whose pointer in components_tuple names a buffer already released.
NewArc == [count |-> 0, capacity |-> DefaultCapacity, alloc |-> DefaultCapacity,
           rows |-> <<>>, freed |-> {}]

UninitRow == [c \in {"uninit"} |-> 0]

\* Arc::set_min_capacity
set_min_capacity(arc, min_capacity) ==
    IF arc.capacity >= min_capacity THEN arc
    ELSE IF arc.capacity = 0
         THEN \* allocate_components_tuple: fresh buffers, nothing copied
              [arc EXCEPT !.alloc = min_capacity,
                          !.rows = [i \in 1..arc.count |-> UninitRow],
                          !.capacity = min_capacity,
                          !.freed = {}]
         ELSE \* reallocate_components_tuple: realloc keeps the contents
              [arc EXCEPT !.alloc = min_capacity, !.capacity = min_capacity]

\* Arc::reallocate_components_tuple of the archetype a when std::realloc
\* returns null for the columns failing (not empty) and succeeds for the
\* others. realloc has released or resized the old buffer of each column it
\* succeeded for, std::free then releases the new one, and components_tuple
\* keeps the old pointers: std::bad_alloc leaves those columns dangling.
reallocate_components_tuple_bad_alloc(arc, a, failing) ==
    [arc EXCEPT !.freed = @ \cup (Components(a) \ failing)]

\* Arc::emplace_back() has to allocate: capacity <= count and capacity << 1
\* is more than capacity
emplace_back_allocates(arc) == arc.capacity <= arc.count /\ arc.capacity > 0

\* the growth step of Arc::emplace_back
grow_for_append(arc) ==
    IF arc.capacity <= arc.count
    THEN set_min_capacity(arc, arc.capacity * 2)
    ELSE arc

\* default_construct_at(components_tuple, count) writes past the buffers
emplace_back_overflows(arc) == grow_for_append(arc).count >= grow_for_append(arc).alloc

\* Arc::emplace_back() of the archetype a
emplace_back(arc, a) ==
    LET grown == grow_for_append(arc)
    IN [grown EXCEPT !.rows = Append(@, DefaultRow(a)), !.count = @ + 1]

\* Arc::pop_back
pop_back(arc) ==
    [arc EXCEPT !.count = @ - 1, !.rows = SubSeq(@, 1, Len(@) - 1)]

\* Arc::clear
clear(arc) == [arc EXCEPT !.rows = <<>>, !.count = 0, !.capacity = 0]

\* Arc::has_component<T>
has_component(a, T) == T \in Components(a)

\* Arc::has_components<Ts...>
has_components(a, Ts) == \A T \in Ts : has_component(a, T)

\* a T* into the archetype a's column T; nullptr is NullPtr
Ptr(a, T, index) == [arc |-> a, comp |-> T, index |-> index]
NullPtr == Ptr(-1, "nullptr", -1)

\* Arc::try_get_component<T>
try_get_component(a, T, index) ==
    IF has_component(a, T) THEN Ptr(a, T, index) ELSE NullPtr

\* What an accessor call ends in: a value returned, or an exception thrown.
Returned(value) == [thrown |-> "none", value |-> value]
Thrown(what) == [thrown |-> what, value |-> NullPtr]

\* Arc::at(index) of the archetype a's store in the build without NDEBUG: the
\* tuple of references to row index. index is a std::size_t; a negative index
\* here is one that wrapped, and is above every count.
at(arc, a, index) ==
    IF index < 0 \/ index >= arc.count
    THEN Thrown("std::out_of_range")
    ELSE Returned([T \in Components(a) |-> Ptr(a, T, index)])

\* Arc::operator[](index), the same body as Arc::at
operator_index(arc, a, index) ==
    IF index < 0 \/ index >= arc.count
    THEN Thrown("std::out_of_range")
    ELSE Returned([T \in Components(a) |-> Ptr(a, T, index)])

\* Arc::back and Arc::front
back(arc, a) == at(arc, a, arc.count - 1)
front(arc, a) == at(arc, a, 0)

\* Arc::get_component<T>(index): the column pointer plus index, dereferenced
Arc_get_component(arc, a, T, index) == Returned(Ptr(a, T, index))

\* Arc::get_components<Ts...>(index)
Arc_get_components(arc, a, Ts, index) == Returned([T \in Ts |-> Ptr(a, T, index)])

\* ---------------------------------------------------------------- Scene
\* The scene as one value: operations map a scene to a scene.
Scene == [pairs |-> id_index_pairs, oob |-> oob_pair, stack |-> recycled_ids,
          arcs |-> archetypes_tuple, fault |-> "none"]

InTable(S, hash) == hash >= 0 /\ hash < Len(S.pairs)

\* id_index_pairs[hash]. std::vector::operator[] is unchecked: an index outside
\* the vector is undefined behaviour. The index is SIZE_MAX (id with low half
\* 0), one element before the buffer; the outcomes modelled are that the run
\* dies, or that the access reads and writes that memory (oob).
pair_at(S, hash) == IF InTable(S, hash) THEN S.pairs[hash + 1] ELSE S.oob

set_first(S, hash, id) ==
    IF InTable(S, hash) THEN [S EXCEPT !.pairs[hash + 1].first = id]
    ELSE [S EXCEPT !.oob.first = id, !.fault = Worse(@, "ub")]

set_second(S, hash, row) ==
    IF InTable(S, hash) THEN [S EXCEPT !.pairs[hash + 1].second = row]
    ELSE [S EXCEPT !.oob.second = row, !.fault = Worse(@, "ub")]

\* find_component_index comparing the slot index alone, not the generation
find_component_index_no_generation(S, entity) ==
    LET hash == slot_hash(entity.id)
    IN IF pair_at(S, hash).first.low # entity.id.low
       THEN [found |-> FALSE, index |-> 0, oob |-> ~InTable(S, hash)]
       ELSE [found |-> TRUE, index |-> pair_at(S, hash).second,
             oob |-> ~InTable(S, hash)]

\* Scene::find_component_index
find_component_index(S, entity) ==
    LET hash == slot_hash(entity.id)
    IN IF pair_at(S, hash).first # entity.id
       THEN [found |-> FALSE, index |-> 0, oob |-> ~InTable(S, hash)]
       ELSE [found |-> TRUE, index |-> pair_at(S, hash).second,
             oob |-> ~InTable(S, hash)]

\* create_entity that always mints a fresh slot
create_entity_always_fresh(S, a) ==
    LET arc == emplace_back(S.arcs[a], a)
        id == MkId(0, Len(S.pairs) + 1)
        pair == [first |-> id, second |-> arc.count - 1]
        filled == [arc EXCEPT !.rows[arc.count]["EntityHandle"] = Handle(a, id)]
    IN [S EXCEPT !.arcs[a] = filled, !.pairs = Append(@, pair)]

\* create_entity taking the oldest recycled id, not the newest
create_entity_fifo(S, a) ==
    LET arc == emplace_back(S.arcs[a], a)
        recycled == S.stack # <<>>
        id == IF recycled THEN S.stack[1] ELSE MkId(0, Len(S.pairs) + 1)
        pair == [first |-> id, second |-> arc.count - 1]
        filled == [arc EXCEPT !.rows[arc.count]["EntityHandle"] = Handle(a, id)]
        S1 == [S EXCEPT !.arcs[a] = filled]
    IN IF recycled
       THEN LET S2 == [S1 EXCEPT !.stack = Tail(@)]
            IN set_second(set_first(S2, slot_hash(id), pair.first),
                          slot_hash(id), pair.second)
       ELSE [S1 EXCEPT !.pairs = Append(@, pair)]

\* create_entity that mints a fresh slot while the stack holds a single id
create_entity_keeps_last_recycled(S, a) ==
    LET arc == emplace_back(S.arcs[a], a)
        recycled == Len(S.stack) > 1
        id == IF recycled THEN S.stack[Len(S.stack)] ELSE MkId(0, Len(S.pairs) + 1)
        pair == [first |-> id, second |-> arc.count - 1]
        filled == [arc EXCEPT !.rows[arc.count]["EntityHandle"] = Handle(a, id)]
        S1 == [S EXCEPT !.arcs[a] = filled]
    IN IF recycled
       THEN LET S2 == [S1 EXCEPT !.stack = SubSeq(@, 1, Len(@) - 1)]
            IN set_second(set_first(S2, slot_hash(id), pair.first),
                          slot_hash(id), pair.second)
       ELSE [S1 EXCEPT !.pairs = Append(@, pair)]

\* Scene::create_entity<EntityArchetype>, a the archetype's index
create_entity(S, a) ==
    LET arc == emplace_back(S.arcs[a], a)
        overflow == emplace_back_overflows(S.arcs[a])
        recycled == S.stack # <<>>
        id == IF recycled THEN S.stack[Len(S.stack)]
                          ELSE MkId(0, Len(S.pairs) + 1)
        pair == [first |-> id, second |-> arc.count - 1]
        filled == [arc EXCEPT !.rows[arc.count]["EntityHandle"] = Handle(a, id)]
        S1 == [S EXCEPT !.arcs[a] = filled,
                        !.fault = IF overflow THEN Worse(@, "ub") ELSE @]
    IN IF recycled
       THEN LET S2 == [S1 EXCEPT !.stack = SubSeq(@, 1, Len(@) - 1)]
            IN set_second(set_first(S2, slot_hash(id), pair.first),
                          slot_hash(id), pair.second)
       ELSE [S1 EXCEPT !.pairs = Append(@, pair)]

\* the sizes at which id_index_pairs.emplace_back() has size() == capacity()
\* and allocates, under the doubling and the 1.5x growth of std::vector alike
id_index_pairs_allocates(S) == Len(S.pairs) \in {0, 1, 2, 4}

\* Scene::create_entity<EntityArchetype> when archetype.emplace_back() throws
\* std::bad_alloc out of set_min_capacity: nothing after it runs
create_entity_bad_alloc_store(S, a, failing) ==
    [S EXCEPT !.arcs[a] = reallocate_components_tuple_bad_alloc(@, a, failing)]

\* Scene::create_entity<EntityArchetype> when id_index_pairs.emplace_back()
\* throws std::bad_alloc: the row is appended and holds the id
\* id_index_pairs.size() + 1 and the value-initialised archetype_index 0
create_entity_bad_alloc_table(S, a) ==
    LET arc == emplace_back(S.arcs[a], a)
        id == MkId(0, Len(S.pairs) + 1)
    IN [S EXCEPT !.arcs[a] =
                     [arc EXCEPT !.rows[arc.count]["EntityHandle"] = Handle(0, id)]]

\* the handle create_entity returns in the scene it returns
created_handle(S, a) == S.arcs[a].rows[S.arcs[a].count]["EntityHandle"]

\* destroy_entity_at_arc that leaves the removed entity's id in its slot
destroy_entity_at_arc_keeps_slot(S, ArcIter, entity, component_index) ==
    LET arc == S.arcs[ArcIter]
        swap == component_index # arc.count - 1
    IN IF arc.count = 0 \/ component_index >= arc.count
       THEN [S EXCEPT !.fault = "fatal"]
       ELSE LET id == arc.rows[arc.count]["EntityHandle"].id
                S1 == IF swap THEN set_second(S, slot_hash(id), component_index) ELSE S
                rows == IF swap
                        THEN [arc.rows EXCEPT ![component_index + 1] = arc.rows[arc.count]]
                        ELSE arc.rows
                S2 == [S1 EXCEPT !.arcs[ArcIter] = pop_back([arc EXCEPT !.rows = rows])]
            IN [S2 EXCEPT !.stack = Append(@, BumpGen(entity.id))]

\* Scene::destroy_entity_at_arc<ArcIter>
destroy_entity_at_arc(S, ArcIter, entity, component_index) ==
    LET arc == S.arcs[ArcIter]
        swap == component_index # arc.count - 1
    IN IF arc.count = 0 \/ component_index >= arc.count
       THEN \* back() / at(): std::out_of_range
            [S EXCEPT !.fault = "fatal"]
       ELSE LET id == arc.rows[arc.count]["EntityHandle"].id
                S1 == IF swap THEN set_second(S, slot_hash(id), component_index) ELSE S
                rows == IF swap
                        THEN [arc.rows EXCEPT ![component_index + 1] = arc.rows[arc.count]]
                        ELSE arc.rows
                S2 == [S1 EXCEPT !.arcs[ArcIter] = pop_back([arc EXCEPT !.rows = rows])]
                S3 == set_first(S2, slot_hash(entity.id), ZeroId)
            IN [S3 EXCEPT !.stack = Append(@, BumpGen(entity.id))]

\* destroy_entity<ArcIter> that moves the last row without rewriting the moved
\* entity's slot-table row
RECURSIVE destroy_entity_arc_stale_row(_, _, _, _)
destroy_entity_arc_stale_row(S, ArcIter, entity, component_index) ==
    IF ArcIter = entity.archetype_index
    THEN LET arc == S.arcs[ArcIter]
             swap == component_index # arc.count - 1
         IN IF arc.count = 0 \/ component_index >= arc.count
            THEN [S EXCEPT !.fault = "fatal"]
            ELSE LET rows == IF swap
                             THEN [arc.rows EXCEPT ![component_index + 1] =
                                                        arc.rows[arc.count]]
                             ELSE arc.rows
                     S2 == [S EXCEPT !.arcs[ArcIter] =
                                         pop_back([arc EXCEPT !.rows = rows])]
                     S3 == set_first(S2, slot_hash(entity.id), ZeroId)
                 IN [S3 EXCEPT !.stack = Append(@, BumpGen(entity.id))]
    ELSE IF ArcIter < NumArchetypes - 1
         THEN destroy_entity_arc_stale_row(S, ArcIter + 1, entity, component_index)
         ELSE S

\* Scene::destroy_entity<ArcIter>(entity, component_index)
RECURSIVE destroy_entity_arc(_, _, _, _)
destroy_entity_arc(S, ArcIter, entity, component_index) ==
    IF ArcIter = entity.archetype_index
    THEN LET arc == S.arcs[ArcIter]
             swap == component_index # arc.count - 1
         IN IF arc.count = 0 \/ component_index >= arc.count
            THEN [S EXCEPT !.fault = "fatal"]
            ELSE LET id == arc.rows[arc.count]["EntityHandle"].id
                     S1 == IF swap THEN set_second(S, slot_hash(id), component_index)
                                   ELSE S
                     rows == IF swap
                             THEN [arc.rows EXCEPT ![component_index + 1] =
                                                        arc.rows[arc.count]]
                             ELSE arc.rows
                     S2 == [S1 EXCEPT !.arcs[ArcIter] =
                                          pop_back([arc EXCEPT !.rows = rows])]
                     S3 == set_first(S2, slot_hash(entity.id), ZeroId)
                 IN [S3 EXCEPT !.stack = Append(@, BumpGen(entity.id))]
    ELSE IF ArcIter < NumArchetypes - 1
         THEN destroy_entity_arc(S, ArcIter + 1, entity, component_index)
         ELSE S

\* Scene::destroy_entity(entity)
destroy_entity(S, entity) ==
    LET f == find_component_index(S, entity)
        S0 == IF f.oob THEN [S EXCEPT !.fault = Worse(@, "ub")] ELSE S
    IN IF ~f.found THEN S0
       ELSE destroy_entity_arc(S0, 0, entity, f.index)

\* Scene::destroy_entities
destroy_entities(S) ==
    [S EXCEPT !.stack = @ \o [i \in 1..Len(S.pairs) |-> BumpGen(S.pairs[i].first)],
              !.pairs = [i \in 1..Len(S.pairs) |-> [first |-> ZeroId, second |-> 0]],
              !.arcs = [a \in Archetypes |-> clear(S.arcs[a])]]

\* Scene::get_components<ArcIter, Ts...>(archetype_index, component_index)
RECURSIVE get_components_arc(_, _, _, _)
get_components_arc(ArcIter, Ts, archetype_index, component_index) ==
    IF ArcIter = archetype_index
    THEN [T \in Ts |-> try_get_component(ArcIter, T, component_index)]
    ELSE IF ArcIter < NumArchetypes - 1
         THEN get_components_arc(ArcIter + 1, Ts, archetype_index, component_index)
         ELSE [T \in Ts |-> NullPtr]

\* Scene::get_components<Ts...>(entity)
get_components(S, entity, Ts) ==
    LET f == find_component_index(S, entity)
    IN IF ~f.found THEN [T \in Ts |-> NullPtr]
       ELSE get_components_arc(0, Ts, entity.archetype_index, f.index)

\* ------------------------------------------------- visitors, predicates
\* what a return statement yields whose operand does not convert to the
\* function's return type: the instantiation is rejected by the compiler
IllFormed == Ptr(-2, "ill-formed", -2)

\* Scene::get_component<ArcIter, T>(archetype_index, component_index).
\* "if (ArcIter == archetype_index)" is not constexpr: both returns are
\* instantiated. The first is std::addressof of the prvalue T* that
\* try_get_component returns (deleted overload, and a T** at best); the
\* second returns the std::tuple<T*> of get_components<ArcIter + 1, T>.
get_component_arc(ArcIter, T, archetype_index, component_index) ==
    IF ArcIter = archetype_index THEN IllFormed
    ELSE IF ArcIter < NumArchetypes - 1 THEN IllFormed
         ELSE NullPtr

\* Scene::get_component<T>(entity)
get_component(S, entity, T) ==
    LET f == find_component_index(S, entity)
    IN IF ~f.found THEN NullPtr
       ELSE get_component_arc(0, T, entity.archetype_index, f.index)

\* A predicate takes one component: [](int health) { return health <= 0; }.
\* type is its parameter type, ints / bools the values it holds for.
Pred(T, is, bs) == [type |-> T, ints |-> is, bools |-> bs]

holds(p, row) ==
    IF p.type = "int" THEN row["int"] \in p.ints ELSE row["bool"] \in p.bools

\* the row loop of for_each running from the last row down to row i
RECURSIVE for_each_rows_descending(_, _, _, _, _)
for_each_rows_descending(S, ArcIter, Ts, i, count) ==
    IF i < count
    THEN for_each_rows_descending(S, ArcIter, Ts, i + 1, count)
         \o <<[archetype |-> ArcIter, index |-> i,
                args |-> [T \in Ts |-> S.arcs[ArcIter].rows[i + 1][T]]]>>
    ELSE <<>>

\* Scene::for_each<ArcIter>: the rows 0..count-1 of one archetype, from row i
RECURSIVE for_each_rows(_, _, _, _, _)
for_each_rows(S, ArcIter, Ts, i, count) ==
    IF i < count
    THEN <<[archetype |-> ArcIter, index |-> i,
            args |-> [T \in Ts |-> S.arcs[ArcIter].rows[i + 1][T]]]>>
         \o for_each_rows(S, ArcIter, Ts, i + 1, count)
    ELSE <<>>

\* for_each that stops at the first qualifying archetype that has rows
RECURSIVE for_each_first_archetype(_, _, _)
for_each_first_archetype(S, ArcIter, Ts) ==
    LET own == IF has_components(ArcIter, Ts)
               THEN for_each_rows(S, ArcIter, Ts, 0, S.arcs[ArcIter].count)
               ELSE <<>>
    IN IF own # <<>> \/ ArcIter >= NumArchetypes - 1 THEN own
       ELSE for_each_first_archetype(S, ArcIter + 1, Ts)

\* Scene::for_each<ArcIter>(func): the calls of func, in order; each call is the
\* row whose components it is passed by reference, and their values
RECURSIVE for_each(_, _, _)
for_each(S, ArcIter, Ts) ==
    (IF has_components(ArcIter, Ts)
     THEN for_each_rows(S, ArcIter, Ts, 0, S.arcs[ArcIter].count)
     ELSE <<>>)
    \o (IF ArcIter < NumArchetypes - 1 THEN for_each(S, ArcIter + 1, Ts) ELSE <<>>)

\* std::optional<EntityHandle>
Some(h) == [has_value |-> TRUE, value |-> h]
nullopt == [has_value |-> FALSE, value |-> NoHandle]

\* the row loop of find_entity_if keeping the last match, not the first
RECURSIVE find_entity_if_rows_last(_, _, _, _, _)
find_entity_if_rows_last(S, ArcIter, p, i, count) ==
    IF i < count
    THEN LET later == find_entity_if_rows_last(S, ArcIter, p, i + 1, count)
         IN IF later.has_value THEN later
            ELSE IF holds(p, S.arcs[ArcIter].rows[i + 1])
                 THEN Some(S.arcs[ArcIter].rows[i + 1]["EntityHandle"])
                 ELSE nullopt
    ELSE nullopt

\* the row loop of Scene::find_entity_if<ArcIter>, from row i
RECURSIVE find_entity_if_rows(_, _, _, _, _)
find_entity_if_rows(S, ArcIter, p, i, count) ==
    IF i < count
    THEN IF holds(p, S.arcs[ArcIter].rows[i + 1])
         THEN Some(S.arcs[ArcIter].rows[i + 1]["EntityHandle"])
         ELSE find_entity_if_rows(S, ArcIter, p, i + 1, count)
    ELSE nullopt

\* Scene::find_entity_if<ArcIter>(condition)
RECURSIVE find_entity_if(_, _, _)
find_entity_if(S, ArcIter, p) ==
    LET hit == IF has_components(ArcIter, {p.type})
               THEN find_entity_if_rows(S, ArcIter, p, 0, S.arcs[ArcIter].count)
               ELSE nullopt
    IN IF hit.has_value THEN hit
       ELSE IF ArcIter < NumArchetypes - 1 THEN find_entity_if(S, ArcIter + 1, p)
            ELSE nullopt

\* the row loop of find_entities_where stopping at an archetype's first match
RECURSIVE find_entities_where_rows_first(_, _, _, _, _)
find_entities_where_rows_first(S, ArcIter, p, i, count) ==
    IF i < count
    THEN IF holds(p, S.arcs[ArcIter].rows[i + 1])
         THEN <<S.arcs[ArcIter].rows[i + 1]["EntityHandle"]>>
         ELSE find_entities_where_rows_first(S, ArcIter, p, i + 1, count)
    ELSE <<>>

\* the row loop of Scene::find_entities_where<ArcIter>, from row i: the
\* handles it push_backs onto found_entities
RECURSIVE find_entities_where_rows(_, _, _, _, _)
find_entities_where_rows(S, ArcIter, p, i, count) ==
    IF i < count
    THEN (IF holds(p, S.arcs[ArcIter].rows[i + 1])
          THEN <<S.arcs[ArcIter].rows[i + 1]["EntityHandle"]>>
          ELSE <<>>)
         \o find_entities_where_rows(S, ArcIter, p, i + 1, count)
    ELSE <<>>

\* Scene::find_entities_where<ArcIter>(found_entities, condition)
RECURSIVE find_entities_where(_, _, _)
find_entities_where(S, ArcIter, p) ==
    (IF has_components(ArcIter, {p.type})
     THEN find_entities_where_rows(S, ArcIter, p, 0, S.arcs[ArcIter].count)
     ELSE <<>>)
    \o (IF ArcIter < NumArchetypes - 1
        THEN find_entities_where(S, ArcIter + 1, p)
        ELSE <<>>)

\* Scene::destroy_entities_where<ArcIter>: for (i = count - 1; i != 0; --i)
RECURSIVE destroy_entities_where_rows(_, _, _, _)
destroy_entities_where_rows(S, ArcIter, p, i) ==
    IF i = 0 \/ S.fault = "fatal" THEN S
    ELSE IF i >= S.arcs[ArcIter].count
         THEN \* Arc::get_components(i) past count
              [S EXCEPT !.fault = "fatal"]
         ELSE LET row == S.arcs[ArcIter].rows[i + 1]
                  S1 == IF holds(p, row)
                        THEN destroy_entity_at_arc(S, ArcIter, row["EntityHandle"], i)
                        ELSE S
              IN destroy_entities_where_rows(S1, ArcIter, p, i - 1)

\* destroy_entities_where scanning one archetype's rows forward, from row i to
\* the row count the archetype had on entry
RECURSIVE destroy_entities_where_rows_forward(_, _, _, _, _)
destroy_entities_where_rows_forward(S, ArcIter, p, i, count) ==
    IF i >= count THEN S
    ELSE LET S1 == IF i < S.arcs[ArcIter].count
                       /\ holds(p, S.arcs[ArcIter].rows[i + 1])
                    THEN destroy_entity_at_arc(
                             S, ArcIter, S.arcs[ArcIter].rows[i + 1]["EntityHandle"], i)
                    ELSE S
         IN destroy_entities_where_rows_forward(S1, ArcIter, p, i + 1, count)

destroy_entities_where_arc_forward(S, ArcIter, p) ==
    destroy_entities_where_rows_forward(S, ArcIter, p, 0, S.arcs[ArcIter].count)

\* Scene::destroy_entities_where<ArcIter>: one archetype
destroy_entities_where_arc(S, ArcIter, p) ==
    IF S.arcs[ArcIter].count > 0
    THEN LET S1 == destroy_entities_where_rows(S, ArcIter, p, S.arcs[ArcIter].count - 1)
         IN IF S1.fault # "fatal" /\ S1.arcs[ArcIter].count > 0
                /\ holds(p, S1.arcs[ArcIter].rows[1])
            THEN destroy_entity_at_arc(S1, ArcIter,
                                       S1.arcs[ArcIter].rows[1]["EntityHandle"], 0)
            ELSE S1
    ELSE S

\* Scene::destroy_entities_where<ArcIter>(condition)
RECURSIVE destroy_entities_where(_, _, _)
destroy_entities_where(S, ArcIter, p) ==
    LET S1 == IF has_components(ArcIter, {p.type})
              THEN destroy_entities_where_arc(S, ArcIter, p)
              ELSE S
    IN IF ArcIter < NumArchetypes - 1 /\ S1.fault # "fatal"
       THEN destroy_entities_where(S1, ArcIter + 1, p)
       ELSE S1

\* *ptr = v for the pointer get_components<int>(entity) returned. A row at or
\* past count but inside the buffers is dead memory: the store has no effect.
write_int(S, ptr, v) ==
    IF ptr.index < S.arcs[ptr.arc].count
    THEN [S EXCEPT !.arcs[ptr.arc].rows[ptr.index + 1]["int"] = v]
    ELSE IF ptr.index < S.arcs[ptr.arc].alloc THEN S
         ELSE [S EXCEPT !.fault = Worse(@, "ub")]

\* ----------------------------------------------------------- the caller
IntValues == 0..MaxInt

\* the predicates and the visitors' parameter lists the caller uses
Predicates ==
    {Pred("int", is, {}) : is \in SUBSET IntValues}
    \cup {Pred("bool", {}, bs) : bs \in {{TRUE}, {FALSE}}}

VisitorTypes ==
    {{"int"}, {"bool"}, {"int", "float"}, {"EntityHandle", "int", "float"},
     {"EntityHandle", "bool"}}

\* a call: its name, the handle it was given or returned, its predicate, and
\* the number of entities it removed
Call(op, h, p, removed) == [op |-> op, handle |-> h, pred |-> p, removed |-> removed]

\* the rows a scene holds, over all archetypes
RowCount(S) == S.arcs[0].count + S.arcs[1].count
NoPred == Pred("int", {}, {})

\* the caller's record of an entity: its handle and the row it has written
Entity(h, row) == [handle |-> h, row |-> row]

RECURSIVE SelectSeqBy(_, _)
SelectSeqBy(s, keep) ==
    IF s = <<>> THEN <<>>
    ELSE (IF s[1] \in keep THEN <<s[1]>> ELSE <<>>) \o SelectSeqBy(Tail(s), keep)

Range(s) == {s[i] : i \in DOMAIN s}

\* every id a scene holds stays within the model's bounds
Bounded(S) ==
    /\ Len(S.stack) <= MaxStack
    /\ \A i \in DOMAIN S.stack :
          \* an id whose low half is 0 is born with generation 1: 0 + (1ull << 32)
          S.stack[i].gen <= MaxGen + (IF S.stack[i].low = 0 THEN 1 ELSE 0)

Adopt(S) ==
    /\ S.fault # "fatal"
    /\ Bounded(S)
    /\ id_index_pairs' = S.pairs
    /\ oob_pair' = S.oob
    /\ recycled_ids' = S.stack
    /\ archetypes_tuple' = S.arcs
    /\ status' = IF S.fault = "ub" THEN "undefined" ELSE status
    /\ undefined_calls' = IF status = "undefined" THEN undefined_calls + 1 ELSE 0

Running ==
    /\ status \notin {"crashed", "bad_alloc"}
    /\ undefined_calls < MaxUndefinedCalls

Init ==
    /\ id_index_pairs = <<>>
    /\ oob_pair = [first |-> ZeroId, second |-> 0]
    /\ recycled_ids = <<>>
    /\ archetypes_tuple = [a \in Archetypes |-> NewArc]
    /\ status = "ok"
    /\ undefined_calls = 0
    /\ issued = {}
    /\ destroyed = {}
    /\ world = <<>>
    /\ last = Call("init", NoHandle, NoPred, 0)

\* auto [identifier, ...] = scene.create_entity<A>();
CallCreateEntity(a, slots) ==
    /\ Running
    /\ LET S == create_entity(Scene, a)
           h == created_handle(S, a)
       IN /\ Len(S.pairs) <= slots
          /\ Adopt(S)
          /\ issued' = issued \cup {h}
          /\ world' = Append(world, Entity(h, [DefaultRow(a) EXCEPT !["EntityHandle"] = h]))
          /\ last' = Call("create_entity", h, NoPred, 0)
    /\ UNCHANGED destroyed

\* scene.create_entity<A>(); when an allocation of the call fails: the
\* std::bad_alloc leaves create_entity, and nothing in the program catches it
CallCreateEntityBadAlloc(a) ==
    /\ Running
    /\ \/ /\ emplace_back_allocates(archetypes_tuple[a])
          /\ \E failing \in (SUBSET Components(a)) \ {{}} :
                 archetypes_tuple' =
                     create_entity_bad_alloc_store(Scene, a, failing).arcs
          /\ last' = Call("bad_alloc_store", NoHandle, NoPred, 0)
       \/ /\ recycled_ids = <<>>
          /\ ~emplace_back_overflows(archetypes_tuple[a])
          /\ id_index_pairs_allocates(Scene)
          /\ archetypes_tuple' = create_entity_bad_alloc_table(Scene, a).arcs
          /\ last' = Call("bad_alloc_table", NoHandle, NoPred, 0)
    /\ status' = "bad_alloc"
    /\ UNCHANGED <<id_index_pairs, oob_pair, recycled_ids, undefined_calls,
                   issued, destroyed, world>>

\* scene.destroy_entity(h); for a handle the caller was given. The caller keeps
\* the set destroyed when record is TRUE.
CallDestroyEntity(h, record) ==
    /\ Running
    /\ LET S == destroy_entity(Scene, h)
           acted == find_component_index(Scene, h).found
       IN /\ Adopt(S)
          /\ destroyed' = IF acted /\ record THEN destroyed \cup {h} ELSE destroyed
          /\ world' = IF acted
                      THEN SelectSeqBy(world, {e \in Range(world) : e.handle # h})
                      ELSE world
          /\ last' = Call("destroy_entity", IF acted THEN h ELSE NoHandle, NoPred,
                          IF acted THEN 1 ELSE 0)
    /\ UNCHANGED issued

\* scene.destroy_entities();
CallDestroyEntities ==
    /\ Running
    /\ id_index_pairs # <<>>
    /\ Adopt(destroy_entities(Scene))
    /\ world' = <<>>
    /\ last' = Call("destroy_entities", NoHandle, NoPred, RowCount(Scene))
    /\ UNCHANGED <<issued, destroyed>>

\* scene.destroy_entities_where(p);
CallDestroyEntitiesWhere(p) ==
    /\ Running
    /\ Adopt(destroy_entities_where(Scene, 0, p))
    /\ world' = SelectSeqBy(world,
                    {e \in Range(world) :
                        ~(has_components(e.handle.archetype_index, {p.type})
                          /\ holds(p, e.row))})
    /\ last' = Call("destroy_entities_where", NoHandle, p,
                     RowCount(Scene) - RowCount(destroy_entities_where(Scene, 0, p)))
    /\ UNCHANGED <<issued, destroyed>>

\* auto [i] = scene.get_components<int>(h); if (i) *i = v;
CallWrite(h, v) ==
    /\ Running
    /\ LET ptr == get_components(Scene, h, {"int"})["int"]
       IN /\ ptr # NullPtr
          /\ Adopt(write_int([Scene EXCEPT !.fault =
                                 IF find_component_index(Scene, h).oob THEN "ub" ELSE "none"],
                             ptr, v))
          /\ world' = [i \in DOMAIN world |->
                          IF world[i].handle = h
                          THEN [world[i] EXCEPT !.row["int"] = v]
                          ELSE world[i]]
    /\ last' = Call("write", NoHandle, NoPred, 0)
    /\ UNCHANGED <<issued, destroyed>>

\* the outcomes of the calls whose behaviour is undefined or that throw
Outcomes ==
    {S \in {create_entity(Scene, a) : a \in Archetypes} : Len(S.pairs) <= MaxBulkSlots}
    \cup {destroy_entity(Scene, h) : h \in issued}
    \cup {destroy_entities_where(Scene, 0, p) : p \in Predicates}

\* the run dies in a call: nothing more is observed
Crash ==
    /\ Running
    /\ \E S \in Outcomes : S.fault # "none"
    /\ status' = "crashed"
    /\ last' = Call("crash", NoHandle, NoPred, 0)
    /\ UNCHANGED <<id_index_pairs, oob_pair, recycled_ids, archetypes_tuple,
                   undefined_calls, issued, destroyed, world>>

\* create_entity, destroy_entity and writes through get_components
NextCore ==
    \/ \E a \in Archetypes : CallCreateEntity(a, MaxSlots)
    \/ \E h \in issued : CallDestroyEntity(h, TRUE)
    \/ \E h \in issued, v \in IntValues : CallWrite(h, v)

\* and destroy_entities_where
NextWhere ==
    \/ \E a \in Archetypes : CallCreateEntity(a, MaxSlots)
    \/ \E h \in issued : CallDestroyEntity(h, FALSE)
    \/ \E h \in issued, v \in IntValues : CallWrite(h, v)
    \/ \E p \in Predicates : CallDestroyEntitiesWhere(p)

\* every operation
Next ==
    \/ \E a \in Archetypes : CallCreateEntity(a, MaxBulkSlots)
    \/ \E h \in issued : CallDestroyEntity(h, TRUE)
    \/ \E h \in issued, v \in IntValues : CallWrite(h, v)
    \/ CallDestroyEntities
    \/ \E p \in Predicates : CallDestroyEntitiesWhere(p)
    \/ Crash

\* the ids recycled so far: on the stack, or back in the slot table
Recycled ==
    Len(recycled_ids)
    + Cardinality({k \in DOMAIN id_index_pairs : id_index_pairs[k].first.gen > 0})

\* create_entity past a store's first capacity, destroy_entity of live
\* entities, and writes
NextGrow ==
    \/ \E a \in Archetypes :
           CallCreateEntity(a, IF a = 1 THEN MaxGrowSlots ELSE MaxGrowHumanSlots)
    \/ \E i \in DOMAIN world :
           /\ Recycled < MaxGrowRecycled
           /\ CallDestroyEntity(world[i].handle, FALSE)
    \/ \E i \in DOMAIN world, v \in IntValues : CallWrite(world[i].handle, v)

\* the first demonstration program: 100 Humans, destroy_entity of id 1, 100
\* Goblins
NextScenario ==
    \/ /\ destroyed = {}
       /\ archetypes_tuple[0].count < ScenarioCount
       /\ CallCreateEntity(0, ScenarioCount)
    \/ /\ destroyed = {}
       /\ archetypes_tuple[0].count = ScenarioCount
       /\ CallDestroyEntity(Handle(0, MkId(0, 1)), TRUE)
    \/ /\ destroyed # {}
       /\ archetypes_tuple[1].count < ScenarioCount
       /\ CallCreateEntity(1, ScenarioCount + ScenarioCount)

SpecCore == Init /\ [][NextCore]_vars

SpecScenario == Init /\ [][NextScenario]_vars

SpecGrow == Init /\ [][NextGrow]_vars

\* the same calls, and create_entity calls in which an allocation fails
NextAlloc ==
    \/ NextGrow
    \/ \E a \in Archetypes : CallCreateEntityBadAlloc(a)

SpecAlloc == Init /\ [][NextAlloc]_vars

SpecWhere == Init /\ [][NextWhere]_vars

Spec == Init /\ [][Next]_vars

\* ================================================================ claims
\* the component lists a caller asks get_components for
RequestSets == (SUBSET {"int", "bool", "float"}) \ {{}}

\* get_components<Ts...>(h) is null for every requested type, whatever Ts
ResolvesNull(S, h) ==
    \A Ts \in RequestSets : \A T \in Ts : get_components(S, h, Ts)[T] = NullPtr

\* C1: once destroy_entity(h) has destroyed the live handle h, get_components(h)
\* returns null for every requested type in every later state.
C1_DestroyedStaysNull == \A h \in destroyed : ResolvesNull(Scene, h)

\* the slot of h is in the table and holds another id: h was destroyed, or
\* the slot has been recycled since
Stale(S, h) ==
    /\ InTable(S, slot_hash(h.id))
    /\ S.pairs[slot_hash(h.id) + 1].first # h.id

SameScene(S, R) ==
    /\ S.pairs = R.pairs
    /\ S.oob = R.oob
    /\ S.stack = R.stack
    /\ S.arcs = R.arcs

\* C2: destroy_entity(h) with a handle whose id differs from the id stored in
\* its slot changes nothing: the stores, the slot table and the recycle stack
\* stay as they are, and the entity occupying the slot still resolves.
C2_StaleDestroyIsNoOp ==
    \A h \in issued :
        Stale(Scene, h) =>
            LET R == destroy_entity(Scene, h)
            IN /\ SameScene(Scene, R)
               /\ R.fault = "none"
               /\ \A g \in issued :
                      ~ResolvesNull(Scene, g) => ~ResolvesNull(R, g)

\* destroy_entity has just been called with a stale handle whose slot holds a
\* newer entity
C2_Witness ==
    /\ last.op = "destroy_entity"
    /\ last.removed = 0
    /\ \E h \in issued :
           /\ Stale(Scene, h)
           /\ Scene.pairs[slot_hash(h.id) + 1].first # ZeroId

\* the value a non-null pointer points at
Deref(S, ptr) == S.arcs[ptr.arc].rows[ptr.index + 1][ptr.comp]

\* a pointer to a constructed row: index < count
PointsAtRow(S, ptr) == ptr # NullPtr /\ ptr.index < S.arcs[ptr.arc].count

\* C3: for every live handle h, get_components(h) returns pointers to the
\* values last written through h, after any create_entity and destroy_entity
\* calls on other entities; a type h's archetype lacks comes back null.
C3_LiveHandleReadsItsWrites ==
    \A i \in DOMAIN world :
        LET e == world[i]
            a == e.handle.archetype_index
            hp == get_components(Scene, e.handle, {"EntityHandle"})["EntityHandle"]
        IN /\ PointsAtRow(Scene, hp)
           /\ Deref(Scene, hp) = e.handle
           /\ \A Ts \in RequestSets :
                  LET ptrs == get_components(Scene, e.handle, Ts)
                  IN \A T \in Ts :
                         IF T \in Components(a)
                         THEN /\ PointsAtRow(Scene, ptrs[T])
                              /\ Deref(Scene, ptrs[T]) = e.row[T]
                         ELSE ptrs[T] = NullPtr

\* the row the slot table gives the entity e
RowOf(S, e) == pair_at(S, slot_hash(e.handle.id)).second

\* a store has grown past its first capacity, and destroy_entity has moved a
\* later-created entity, whose int was written to 1, in front of an earlier one
C3_Witness ==
    /\ \E a \in Archetypes : archetypes_tuple[a].capacity > DefaultCapacity
    /\ \E i, j \in DOMAIN world :
           /\ i < j
           /\ world[i].handle.archetype_index = world[j].handle.archetype_index
           /\ RowOf(Scene, world[j]) < RowOf(Scene, world[i])
           /\ world[j].row["int"] = 1

\* the rows a scene holds: <<archetype, row index>>
LiveRows(S) == {<<a, i>> \in Archetypes \X (0..(MaxSlots + MaxStack)) : i < S.arcs[a].count}

IdAt(S, r) == S.arcs[r[1]].rows[r[2] + 1]["EntityHandle"].id

\* C4: over any sequence of operations the ids create_entity returns are
\* pairwise distinct, and no two live entities hold the same slot index.
C4_IdsAndSlotsDistinct ==
    /\ [][last'.op = "create_entity" =>
              last'.handle.id \notin {h.id : h \in issued}]_vars
    /\ [](\A r, q \in LiveRows(Scene) :
              r # q => IdAt(Scene, r).low # IdAt(Scene, q).low)

\* C5: when a live entity with id (g << 32) | (s + 1) is destroyed and the next
\* create_entity follows with no destroy in between, the new id is
\* ((g + 1) << 32) | (s + 1), and the two handles are unequal.
C5_RecycleBumpsGeneration ==
    [][(last.op = "destroy_entity" /\ last.removed = 1
        /\ last'.op = "create_entity") =>
           /\ last'.handle.id = MkId(last.handle.id.gen + 1, last.handle.id.low)
           /\ last'.handle # last.handle]_vars

\* one slot, emptied by destroy_entity and filled again by create_entity of
\* the other archetype
C5_Witness ==
    /\ last.op = "create_entity"
    /\ Len(id_index_pairs) = 1
    /\ last.handle.id = MkId(1, 1)
    /\ destroyed = {Handle(1 - last.handle.archetype_index, MkId(0, 1))}

\* the number of rows of a store that equal r
CountIn(arc, r) == Cardinality({i \in 1..arc.count : arc.rows[i] = r})

RowsIn(arc) == {arc.rows[i] : i \in 1..arc.count}

\* C6: destroy_entities_where(p) removes exactly the entities p holds for from
\* every archetype that has p's parameter type: every other row of those
\* archetypes keeps its values, count drops by the number of matches, every
\* archetype without the type is untouched, and the removed handles stop
\* resolving while the kept ones resolve to their own rows.
C6_DestroysExactlyTheMatches ==
    [][last'.op = "destroy_entities_where" =>
          LET p == last'.pred
          IN /\ \A a \in Archetypes :
                    LET before == archetypes_tuple[a]
                        after == archetypes_tuple'[a]
                    IN IF p.type \in Components(a)
                       THEN /\ \A r \in RowsIn(before) \cup RowsIn(after) :
                                   CountIn(after, r) =
                                       IF holds(p, r) THEN 0 ELSE CountIn(before, r)
                            /\ after.count = before.count
                                   - Cardinality({i \in 1..before.count :
                                                      holds(p, before.rows[i])})
                       ELSE after = before
             /\ \A e \in Range(world) :
                    LET a == e.handle.archetype_index
                        ptr == get_components(Scene', e.handle, {"int"})["int"]
                    IN IF p.type \in Components(a) /\ holds(p, e.row)
                       THEN ptr = NullPtr
                       ELSE /\ PointsAtRow(Scene', ptr)
                            /\ Deref(Scene', ptr) = e.row["int"]]_vars

\* destroy_entities_where has just removed two of three entities of one
\* archetype, the first row among them, and kept the third
C6_Witness ==
    /\ last.op = "destroy_entities_where"
    /\ last.removed = 2
    /\ \E a \in Archetypes :
           /\ archetypes_tuple[a].count = 1
           /\ archetypes_tuple[a].rows[1]["EntityHandle"].id.low > 1
           /\ Len(id_index_pairs) = MaxSlots
           /\ \A i \in DOMAIN id_index_pairs :
                  id_index_pairs[i].first.gen = 0

\* the entities of the archetypes that have every type of Ts
Qualifying(Ts) ==
    {i \in DOMAIN world : Ts \subseteq Components(world[i].handle.archetype_index)}

\* C7: for_each calls the visitor exactly once for each live entity of every
\* archetype that has all the visitor's parameter types, with that entity's
\* own component values, and never for an entity of another archetype.
C7_ForEachVisitsEachOnce ==
    \A Ts \in VisitorTypes :
        LET log == for_each(Scene, 0, Ts)
        IN /\ Len(log) = Cardinality(Qualifying(Ts))
           /\ \A k \in DOMAIN log : Ts \subseteq Components(log[k].archetype)
           /\ \A i \in Qualifying(Ts) :
                  Cardinality({k \in DOMAIN log :
                      /\ log[k].archetype = world[i].handle.archetype_index
                      /\ log[k].index = RowOf(Scene, world[i])
                      /\ log[k].args = [T \in Ts |-> world[i].row[T]]}) = 1

\* both archetypes hold entities, one int has been written, and a visitor
\* taking a bool skips the Goblins
C7_Witness ==
    /\ Len(for_each(Scene, 0, {"EntityHandle", "bool"})) = 1
    /\ Len(for_each(Scene, 0, {"int"})) = 3
    /\ \E e \in Range(world) : e.row["int"] = 1

\* the handles for_each passes, in the order of the calls
VisitOrder(S) ==
    LET log == for_each(S, 0, {"EntityHandle"})
    IN [k \in DOMAIN log |-> log[k].args["EntityHandle"]]

\* the handles of archetype a among a sequence of handles
OfArchetype(hs, a) == SelectSeqBy(hs, {h \in Range(hs) : h.archetype_index = a})

\* the live entities' handles by archetype, each archetype's in creation order
CreationOrder ==
    LET hs == [i \in DOMAIN world |-> world[i].handle]
    IN OfArchetype(hs, 0) \o OfArchetype(hs, 1)

\* C8 as stated: in every reachable state for_each visits archetypes in
\* declaration order and, within an archetype, entities in creation order.
C8_CreationOrder == VisitOrder(Scene) = CreationOrder

\* calls in ascending (archetype, row) order
Ascending(log) ==
    \A j, k \in DOMAIN log :
        j < k => \/ log[j].archetype < log[k].archetype
                 \/ /\ log[j].archetype = log[k].archetype
                    /\ log[j].index < log[k].index

\* the visiting order after destroy_entity(h): in h's archetype the last
\* handle takes h's place
AfterSwapRemove(hs, h) ==
    LET n == Len(hs)
        r == CHOOSE k \in DOMAIN hs : hs[k] = h
    IN SubSeq([hs EXCEPT ![r] = hs[n]], 1, n - 1)

\* C8 amended: for_each visits archetypes in declaration order and rows in
\* ascending row index; a created entity is visited last in its archetype,
\* and destroy_entity puts the last-visited entity of the archetype in the
\* destroyed entity's position, leaving the rest of the order as it was.
C8_RowOrder ==
    /\ [](\A Ts \in VisitorTypes : Ascending(for_each(Scene, 0, Ts)))
    /\ [][last'.op = "create_entity" =>
              \A a \in Archetypes :
                  OfArchetype(VisitOrder(Scene'), a) =
                      IF a = last'.handle.archetype_index
                      THEN Append(OfArchetype(VisitOrder(Scene), a), last'.handle)
                      ELSE OfArchetype(VisitOrder(Scene), a)]_vars
    /\ [][(last'.op = "destroy_entity" /\ last'.removed = 1) =>
              \A a \in Archetypes :
                  OfArchetype(VisitOrder(Scene'), a) =
                      IF a = last'.handle.archetype_index
                      THEN AfterSwapRemove(OfArchetype(VisitOrder(Scene), a),
                                           last'.handle)
                      ELSE OfArchetype(VisitOrder(Scene), a)]_vars

\* destroy_entity has just moved the last entity of an archetype in front of
\* an entity created before it
C8_Witness ==
    /\ last.op = "destroy_entity"
    /\ last.removed = 1
    /\ VisitOrder(Scene) # CreationOrder

\* the slots of a slot table that hold an entity
Occupied(pairs) == {i \in DOMAIN pairs : pairs[i].first # ZeroId}

\* C9: destroy_entities() leaves every archetype with count 0 and every slot
\* free, and pushes exactly one generation-bumped id for each slot that was
\* occupied and nothing for a slot that was free.
C9_DestroyEntitiesRecyclesOccupied ==
    [][last'.op = "destroy_entities" =>
          LET pushed == SubSeq(recycled_ids', Len(recycled_ids) + 1,
                               Len(recycled_ids'))
          IN /\ \A a \in Archetypes : archetypes_tuple'[a].count = 0
             /\ \A i \in DOMAIN id_index_pairs' :
                    id_index_pairs'[i].first = ZeroId
             /\ SubSeq(recycled_ids', 1, Len(recycled_ids)) = recycled_ids
             /\ Len(pushed) = Cardinality(Occupied(id_index_pairs))
             /\ Range(pushed) =
                    {MkId(id_index_pairs[i].first.gen + 1, id_index_pairs[i].first.low) :
                         i \in Occupied(id_index_pairs)}]_vars

\* the rows p holds for, over the archetypes that have p's parameter type
Matches(S, p) ==
    {r \in LiveRows(S) :
         /\ p.type \in Components(r[1])
         /\ holds(p, S.arcs[r[1]].rows[r[2] + 1])}

Before(r, q) == r[1] < q[1] \/ (r[1] = q[1] /\ r[2] < q[2])

\* C10: find_entity_if(p) returns the handle of the first row p holds for,
\* taking the archetypes that have p's parameter type in declared order and
\* the rows of each in ascending index, and nothing exactly when no row matches.
C10_FindEntityIfFirstMatch ==
    \A p \in Predicates :
        LET found == find_entity_if(Scene, 0, p)
            M == Matches(Scene, p)
        IN IF M = {} THEN found = nullopt
           ELSE /\ found.has_value
                /\ \E r \in M :
                       /\ \A q \in M : q = r \/ Before(r, q)
                       /\ found.value = Scene.arcs[r[1]].rows[r[2] + 1]["EntityHandle"]

\* a Human that does not match, then two Goblins that do: the first Goblin
\* is found
C10_Witness ==
    LET p == Pred("int", {1}, {})
    IN /\ archetypes_tuple[0].count = 1
       /\ Cardinality(Matches(Scene, p)) = 2
       /\ find_entity_if(Scene, 0, p).value =
              archetypes_tuple[1].rows[1]["EntityHandle"]

\* the elements of a finite set of rows, least (archetype, row) first
RECURSIVE InTraversalOrder(_)
InTraversalOrder(rs) ==
    IF rs = {} THEN <<>>
    ELSE LET r == CHOOSE x \in rs : \A y \in rs : y = x \/ Before(x, y)
         IN <<r>> \o InTraversalOrder(rs \ {r})

\* C11: find_entities_where(p) returns the handles of exactly the live
\* entities of qualifying archetypes p holds for, each once, archetypes in
\* declared order and rows ascending; every returned handle is live; a
\* non-empty list starts with the result of find_entity_if(p).
C11_FindEntitiesWhereAllMatches ==
    \A p \in Predicates :
        LET found == find_entities_where(Scene, 0, p)
            M == InTraversalOrder(Matches(Scene, p))
            expected == {e \in Range(world) :
                            /\ p.type \in Components(e.handle.archetype_index)
                            /\ holds(p, e.row)}
        IN /\ found = [k \in DOMAIN M |->
                          Scene.arcs[M[k][1]].rows[M[k][2] + 1]["EntityHandle"]]
           /\ Range(found) = {e.handle : e \in expected}
           /\ Len(found) = Cardinality(expected)
           /\ \A k \in DOMAIN found : ~ResolvesNull(Scene, found[k])
           /\ found # <<>> => find_entity_if(Scene, 0, p) = Some(found[1])
           /\ found = <<>> => find_entity_if(Scene, 0, p) = nullopt

\* a write has just made entities of both archetypes match, in this order: a
\* Human, then a Goblin, while a second Human does not match
C11_Witness ==
    LET found == find_entities_where(Scene, 0, Pred("int", {1}, {}))
    IN /\ Len(found) = 2
       /\ found[1].archetype_index = 0
       /\ found[2].archetype_index = 1
       /\ archetypes_tuple[0].count = 2
       /\ last.op = "write"

\* the positions of the Goblins in the caller's record, which is in creation
\* order
Goblins == {i \in DOMAIN world : world[i].handle.archetype_index = 1}

\* C12: after 100 Humans (ids 1..100), destroy_entity of id 1 and Goblins up
\* to 100, the first Goblin has the recycled id (1 << 32) + 1 and
\* archetype_index 1 and resolves to non-null pointers, every other Goblin has
\* a distinct generation-0 id in 101..200, and the handles issued are the same
\* in every run.
C12_ScenarioIds ==
    LET G == Goblins
    IN /\ \A i \in G :
              LET h == world[i].handle
              IN IF \A j \in G : i <= j
                 THEN /\ h = Handle(1, MkId(1, 1))
                      /\ \A T \in {"int", "float"} :
                             PointsAtRow(Scene,
                                         get_components(Scene, h, {"int", "float"})[T])
                 ELSE /\ h.id.gen = 0
                      /\ h.id.low \in (ScenarioCount + 1)..(ScenarioCount + ScenarioCount)
       /\ Cardinality({world[i].handle.id : i \in G}) = Cardinality(G)
       /\ issued =
              IF G = {}
              THEN {Handle(0, MkId(0, i)) : i \in 1..Len(id_index_pairs)}
              ELSE {Handle(0, MkId(0, i)) : i \in 1..ScenarioCount}
                   \cup {Handle(1, MkId(1, 1))}
                   \cup {Handle(1, MkId(0, ScenarioCount + k)) :
                             k \in 1..(Cardinality(G) - 1)}

\* the end of the scenario: 99 Humans and 100 Goblins
C12_Witness ==
    /\ archetypes_tuple[0].count = ScenarioCount - 1
    /\ archetypes_tuple[1].count = ScenarioCount
    /\ destroyed = {Handle(0, MkId(0, 1))}

\* C13: for every handle h and component type T, get_component<T>(h) returns
\* what get_components<T>(h) returns for T: null when h does not resolve,
\* otherwise a pointer to the T value of h's row.
C13_SingleLookupEqualsMultiLookup ==
    \A h \in issued : \A T \in {"int", "bool", "float"} :
        get_component(Scene, h, T) = get_components(Scene, h, {T})[T]

\* C14: when create_entity fails for want of memory, every store's count and
\* rows, the slot table and the recycle stack are as before the call, and no
\* row is without a slot-table entry that names it.
C14_FailedCreateChangesNothing ==
    [][last'.op \in {"bad_alloc_store", "bad_alloc_table"} =>
          /\ \A a \in Archetypes :
                 /\ archetypes_tuple'[a].count = archetypes_tuple[a].count
                 /\ archetypes_tuple'[a].rows = archetypes_tuple[a].rows
          /\ id_index_pairs' = id_index_pairs
          /\ recycled_ids' = recycled_ids
          /\ \A r \in LiveRows(Scene') :
                 /\ InTable(Scene', slot_hash(IdAt(Scene', r)))
                 /\ pair_at(Scene', slot_hash(IdAt(Scene', r))) =
                        [first |-> IdAt(Scene', r), second |-> r[2]]]_vars

\* C15: when the growth of a store fails to allocate one of its columns, the
\* store is left as it was: count and capacity unchanged and every column still
\* holding its rows in a buffer the store owns.
C15_FailedGrowthKeepsStore ==
    [][last'.op = "bad_alloc_store" =>
          \A a \in Archetypes :
              /\ archetypes_tuple'[a].count = archetypes_tuple[a].count
              /\ archetypes_tuple'[a].capacity = archetypes_tuple[a].capacity
              /\ archetypes_tuple'[a].rows = archetypes_tuple[a].rows
              /\ archetypes_tuple'[a].freed = {}]_vars

\* the indices at and above the count of a store that the accesses are tried at
IndicesFrom(count) == {count, count + 1, count + DefaultCapacity}

\* C16: in the build with validation, every indexed access of a store at an
\* index at or above its count signals OutOfRange, the whole-row accesses (at,
\* operator[], back and front of an empty store) and the type-filtered ones
\* (get_component, get_components, try_get_component) alike.
C16_IndexedAccessIsChecked ==
    \A a \in Archetypes :
        LET arc == archetypes_tuple[a]
        IN /\ \A index \in IndicesFrom(arc.count) :
                  /\ at(arc, a, index).thrown = "std::out_of_range"
                  /\ operator_index(arc, a, index).thrown = "std::out_of_range"
                  /\ \A T \in Components(a) :
                         /\ Arc_get_component(arc, a, T, index).thrown =
                                "std::out_of_range"
                         /\ Returned(try_get_component(a, T, index)).thrown =
                                "std::out_of_range"
                  /\ \A Ts \in (SUBSET Components(a)) \ {{}} :
                         Arc_get_components(arc, a, Ts, index).thrown =
                             "std::out_of_range"
           /\ arc.count = 0 =>
                  /\ back(arc, a).thrown = "std::out_of_range"
                  /\ front(arc, a).thrown = "std::out_of_range"

\* C17: in every state reached by create_entity, destroy_entity,
\* destroy_entities_where and destroy_entities, each occupied slot (id, row)
\* names a row below the count of a store whose identity column holds that id
\* and that store's archetype index there, and every row below a store's count
\* holds an id that occupies its slot, with that row recorded.
C17_SlotTableAndStoresAgree ==
    /\ \A i \in Occupied(id_index_pairs) :
           LET pair == id_index_pairs[i]
           IN /\ slot_hash(pair.first) = i - 1
              /\ \E a \in Archetypes :
                     /\ pair.second < archetypes_tuple[a].count
                     /\ archetypes_tuple[a].rows[pair.second + 1]["EntityHandle"] =
                            Handle(a, pair.first)
    /\ \A r \in LiveRows(Scene) :
           /\ InTable(Scene, slot_hash(IdAt(Scene, r)))
           /\ id_index_pairs[slot_hash(IdAt(Scene, r)) + 1] =
                  [first |-> IdAt(Scene, r), second |-> r[2]]

\* C18: every store has count <= capacity in every reachable state: an append
\* at count = capacity grows the store first, whatever the capacity, also the
\* capacity 0 that clear() leaves.
C18_CountWithinCapacity ==
    \A a \in Archetypes : archetypes_tuple[a].count <= archetypes_tuple[a].capacity

\* C19: every entity destroy_entities_where removes has its slot freed (id 0)
\* and its id pushed once on the recycle stack with the generation one higher,
\* and its handle resolves to null; every entity the predicate rejects keeps a
\* handle that resolves to its own unchanged values, also when its row moved.
C19_RemovedRecycledRejectedKept ==
    [][last'.op = "destroy_entities_where" =>
          LET p == last'.pred
              pushed == SubSeq(recycled_ids', Len(recycled_ids) + 1,
                               Len(recycled_ids'))
          IN \A e \in Range(world) :
                 LET a == e.handle.archetype_index
                     slot == slot_hash(e.handle.id) + 1
                 IN IF has_components(a, {p.type}) /\ holds(p, e.row)
                    THEN /\ id_index_pairs'[slot].first = ZeroId
                         /\ Cardinality({i \in DOMAIN pushed :
                                pushed[i] = BumpGen(e.handle.id)}) = 1
                         /\ ResolvesNull(Scene', e.handle)
                    ELSE /\ id_index_pairs'[slot].first = e.handle.id
                         /\ BumpGen(e.handle.id) \notin Range(pushed)
                         /\ \A T \in Components(a) :
                                LET ptr == get_components(Scene', e.handle, {T})[T]
                                IN /\ PointsAtRow(Scene', ptr)
                                   /\ Deref(Scene', ptr) =
                                          IF T = "EntityHandle" THEN e.handle
                                          ELSE e.row[T]]_vars

\* destroy_entities_where is the first call that removed anything, it removed
\* an entity, and a kept entity of the same archetype now sits in front of one
\* created before it: its row was moved by this call
C19_Witness ==
    /\ last.op = "destroy_entities_where"
    /\ last.removed >= 1
    /\ Cardinality(issued) = Len(world) + last.removed
    /\ \E i, j \in DOMAIN world :
           /\ i < j
           /\ world[i].handle.archetype_index = world[j].handle.archetype_index
           /\ RowOf(Scene, world[j]) < RowOf(Scene, world[i])

\* the handle that carries the id of h and the archetype index b
Forged(h, b) == Handle(b, h.id)

\* C20: destroy_entity(h) and get_components(h) act only on the entity h was
\* issued for: with the id of a live entity and another archetype index the
\* lookup is null for every type and the destroy changes nothing, whatever
\* the number of rows of the archetype the handle names.
C20_WrongArchetypeHandleIsInert ==
    \A e \in Range(world) :
        \A b \in Archetypes \ {e.handle.archetype_index} :
            LET R == destroy_entity(Scene, Forged(e.handle, b))
            IN /\ ResolvesNull(Scene, Forged(e.handle, b))
               /\ SameScene(Scene, R)
               /\ R.fault = "none"

\* handles no create_entity has returned, as a caller can build them from two
\* integers: id 0, an id whose low half is 0, and slot indices at and beyond
\* the size of the slot table
NeverIssued ==
    {Handle(a, id) : a \in Archetypes,
                     id \in {ZeroId, MkId(1, 0),
                             MkId(0, Len(id_index_pairs) + 1),
                             MkId(0, Len(id_index_pairs) + 2)}}

\* C21: for a handle that was never issued the lookup stays inside the slot
\* table, get_components returns null for every requested type and
\* destroy_entity changes nothing; and the id create_entity would pop from the
\* recycle stack names a slot inside the table.
C21_NeverIssuedHandleIsInert ==
    /\ \A h \in NeverIssued :
           LET R == destroy_entity(Scene, h)
           IN /\ ~find_component_index(Scene, h).oob
              /\ ResolvesNull(Scene, h)
              /\ SameScene(Scene, R)
              /\ R.fault = "none"
    /\ recycled_ids # <<>> =>
           InTable(Scene, slot_hash(recycled_ids[Len(recycled_ids)]))

\* C22: freed ids are reused last in, first out, whatever the archetype.
\* destroy_entity of a live handle pushes its id with the generation one
\* higher; while the stack is not empty create_entity returns the id on top
\* of it, takes it off and adds no slot; with an empty stack it mints the id
\* (number of slots) + 1 with generation 0 and adds that slot.
C22_RecycleIsLifo ==
    /\ [][(last'.op = "destroy_entity" /\ last'.removed = 1) =>
              recycled_ids' = Append(recycled_ids, BumpGen(last'.handle.id))]_vars
    /\ [][last'.op = "create_entity" =>
              IF recycled_ids # <<>>
              THEN /\ last'.handle.id = recycled_ids[Len(recycled_ids)]
                   /\ recycled_ids' = SubSeq(recycled_ids, 1, Len(recycled_ids) - 1)
                   /\ Len(id_index_pairs') = Len(id_index_pairs)
              ELSE /\ last'.handle.id = MkId(0, Len(id_index_pairs) + 1)
                   /\ Len(id_index_pairs') = Len(id_index_pairs) + 1
                   /\ recycled_ids' = <<>>]_vars

\* the entities of slots 1 and 2 were destroyed in that order with no
\* create_entity in between, and create_entity of the other archetype has just
\* received slot 2 with generation 1; slot 1 is next on the stack
C22_Witness ==
    /\ last.op = "create_entity"
    /\ last.handle.id = MkId(1, 2)
    /\ recycled_ids = <<MkId(1, 1)>>
    /\ Handle(1 - last.handle.archetype_index, MkId(0, 2)) \in destroyed
    /\ Len(id_index_pairs) = MaxSlots

====
